---- MODULE Spec2Model ----
(***************************************************************************)
(* Model of the interactive Moebius-strip visualizer                       *)
(* (src/sunset_spiral/main.py): the frame loop of DNAVisualizer.run, the   *)
(* event dispatch of handle_events, the pointer/ripple state of            *)
(* MouseEffect and the per-frame parameters of draw_dna_helix.             *)
(*                                                                         *)
(* Units.  The program computes with floats; the model is exact:           *)
(*   time             hundredths (update adds 0.06, i.e. 6)                *)
(*   rotation_offset  thousandths of a radian (DRAG_SENSITIVITY = 0.003)   *)
(*   view_offset_x/y  half pixels (update_drag adds dy * 0.5)              *)
(*   temperatures     thousandths of a degree                              *)
(*   sines            thousandths                                          *)
(* The colour arithmetic (blend_colors, final_color) is not scaled: it is  *)
(* computed in binary floating point, as the program computes it.          *)
(***************************************************************************)
EXTENDS Integers, Sequences, FiniteSets, TLC

VARIABLES
    pc,               \* position of DNAVisualizer.run
    running,          \* DNAVisualizer.running
    time,             \* DNAVisualizer.time, in hundredths
    show_help,        \* DNAVisualizer.show_help
    help_fade_timer,  \* DNAVisualizer.help_fade_timer
    position,         \* MouseEffect.position
    click_effects,    \* MouseEffect.click_effects
    is_dragging,      \* MouseEffect.is_dragging
    drag_start,       \* MouseEffect.drag_start
    rotation_offset,  \* MouseEffect.rotation_offset, in thousandths
    view_offset_x,    \* MouseEffect.view_offset_x, in half pixels
    view_offset_y,    \* MouseEffect.view_offset_y, in half pixels
    BASE_RADIUS,      \* DNAConfig.BASE_RADIUS (reassigned by the wheel)
    events,           \* the list returned by pygame.event.get(), unread part
    exc,              \* exception propagating out of the loop, or "none"
    exit_status,      \* process exit status, -1 while the process lives
    display,          \* what the last render drew and presented
    log,              \* history: events dispatched so far, with their frame
    call              \* colour computation under way: function, arguments, result

vars == <<pc, running, time, show_help, help_fade_timer, position,
          click_effects, is_dragging, drag_start, rotation_offset,
          view_offset_x, view_offset_y, BASE_RADIUS, events, exc,
          exit_status, display, log, call>>

mouse_vars == <<position, click_effects, is_dragging, drag_start,
                rotation_offset, view_offset_x, view_offset_y>>

----------------------------------------------------------------------------
(* Program constants *)

MOUSE_INFLUENCE_RADIUS == 150
CLICK_EFFECT_DURATION == 60
\* 0.003 rad per pixel, in thousandths of a radian
DRAG_SENSITIVITY == 3
\* BASE_RADIUS as the class body sets it
INITIAL_BASE_RADIUS == 320
\* self.time += 0.06, in hundredths
TIME_STEP == 6
\* self.help_fade_timer = 300
HELP_FADE_FRAMES == 300
\* max(100, min(500, ...)) of the wheel handler
MIN_BASE_RADIUS == 100
MAX_BASE_RADIUS == 500
\* 'max_radius': MOUSE_INFLUENCE_RADIUS * 1.2
MaxRippleRadius == (MOUSE_INFLUENCE_RADIUS * 12) \div 10

POINTS_COUNT == 900
WIDTH_STEPS == 21

----------------------------------------------------------------------------
(* Bounds of the environments *)

\* pointer positions the window delivers
Positions == {<<100, 200>>, <<110, 204>>}
\* events returned by one poll, at most
MaxBatch == 2
\* ripple environment: frames rendered, clicks delivered, and the width of
\* the windows (one per CLICK_EFFECT_DURATION frames) in which clicks arrive
MaxRippleFrames == 63
MaxClicks == 3
ClickWindow == 3
\* pointer environment: frames rendered and events delivered
MaxMouseFrames == 2
MaxMouseEvents == 3
\* wheel environment
MaxZoomFrames == 3
MaxWheelEvents == 5
\* shutdown environment
MaxQuitFrames == 3
MaxQuitEvents == 3
\* environment that also delivers events lacking an attribute
MaxFaultFrames == 2
MaxFaultEvents == 3
\* temperature environment: the clock starts at TempStride * i frames, for
\* i below TempSamples, and TempRun frames are rendered from each start
TempStride == 400
TempSamples == 305
TempRun == 2

\* blend factors are the multiples of 1 / FactorSteps in [0, 1]
FactorSteps == 10

\* pointer and ripple influences are the multiples of 1 / LevelSteps in [0, 1]
LevelSteps == 4

----------------------------------------------------------------------------
(* Events *)

\* no colour computation is being examined
NoCall == [fn |-> "none"]

NoPos == <<0, 0>>

\* A pygame event: its type and the attributes it carries.  `attrs' names
\* the attributes that are present; an absent one is never read.
Ev(type, attrs, pos, button, key, y) ==
    [type |-> type, attrs |-> attrs, pos |-> pos, button |-> button,
     key |-> key, y |-> y]

QuitEv == Ev("QUIT", {}, NoPos, 0, "", 0)
KeyEv(k) == Ev("KEYDOWN", {"key"}, NoPos, 0, k, 0)
MotionEv(p) == Ev("MOUSEMOTION", {"pos"}, p, 0, "", 0)
DownEv(b, p) == Ev("MOUSEBUTTONDOWN", {"button", "pos"}, p, b, "", 0)
UpEv(b, p) == Ev("MOUSEBUTTONUP", {"button", "pos"}, p, b, "", 0)
WheelEv(y) == Ev("MOUSEWHEEL", {"y"}, NoPos, 0, "", y)

\* sequences over S of length 0..n
SeqsUpTo(S, n) == UNION {[1..k -> S] : k \in 0..n}

\* index of the frame the loop is in while it handles events
Frame == time \div TIME_STEP

----------------------------------------------------------------------------
(* Temperature *)

\* TemperatureConfig, in thousandths of a degree
ANNUAL_AVERAGE == 2500
AMPLITUDE == 22500
DAILY_VARIATION == 3000

\* math.sin of x tenths of a degree, 0 <= x <= 1800, in thousandths
\* (Bhaskara's rational approximation, within 0.002 of the sine)
SinHalfTurn(x) ==
    LET p == x * (1800 - x)
    IN  (400 * p) \div ((4050000 - p) \div 10)

\* math.sin of a tenths of a degree, in thousandths
Sin(a) ==
    LET x == a % 3600
    IN  IF x <= 1800 THEN SinHalfTurn(x) ELSE 0 - SinHalfTurn(x - 1800)

\* get_body_temp(t) for t = tm / 100, in thousandths of a degree (within
\* 0.1 degree of the float result).  day_of_year = (t * 0.05) % 365 is
\* (tm % 730000) / 2000 and hour = (t * 1.2) % 24 is ((3 * tm) % 6000) / 250;
\* the two angles are taken in tenths of a degree.
get_body_temp(tm) ==
    LET seasonal_angle == (9 * ((tm % 730000) - 60000)) \div 1825
        daily_angle == (3 * (((3 * tm) % 6000) - 1500)) \div 5
        seasonal_temp == ANNUAL_AVERAGE + (AMPLITUDE * Sin(seasonal_angle)) \div 1000
        daily_variation == (DAILY_VARIATION * Sin(daily_angle)) \div 1000
    IN  seasonal_temp + daily_variation

\* variant: the factor is clamped to [0, 1]
temp_factor_clamped(temp) ==
    LET f == (temp + 20000) \div 45
    IN  IF f < 0 THEN 0 ELSE IF f > 1000 THEN 1000 ELSE f

\* draw_dna_helix: temp_factor = (temp + 20) / 45, in thousandths
temp_factor(temp) == (temp + 20000) \div 45

\* what draw_dna_helix derives from the time and the temperature
Drawn(n, tm, ripples) ==
    LET temp == get_body_temp(tm)
    IN  [flips |-> n, t |-> tm, temp |-> temp,
         temp_factor |-> temp_factor(temp), ripples |-> ripples]

----------------------------------------------------------------------------
(* MouseEffect *)

RippleEffect(pos) == [pos |-> pos, time |-> 0, max_radius |-> MaxRippleRadius]

\* variant: the new effect replaces the collection
add_click_effect_replacing(effects, pos) == <<RippleEffect(pos)>>

\* variant: the new ripple is put in front of the older ones
add_click_effect_in_front(effects, pos) == <<RippleEffect(pos)>> \o effects

add_click_effect(effects, pos) == Append(effects, RippleEffect(pos))

\* variant: ages first, then drops what reached the duration
update_effects_age_first(effects) ==
    LET aged == [i \in DOMAIN effects |-> [effects[i] EXCEPT !.time = @ + 1]]
    IN  SelectSeq(aged, LAMBDA e : e.time < CLICK_EFFECT_DURATION)

\* variant: the comparison admits the duration itself
update_effects_inclusive(effects) ==
    LET kept == SelectSeq(effects, LAMBDA e : e.time <= CLICK_EFFECT_DURATION)
    IN  [i \in DOMAIN kept |-> [kept[i] EXCEPT !.time = @ + 1]]

update_effects(effects) ==
    LET kept == SelectSeq(effects, LAMBDA e : e.time < CLICK_EFFECT_DURATION)
    IN  [i \in DOMAIN kept |-> [kept[i] EXCEPT !.time = @ + 1]]

----------------------------------------------------------------------------
(* Floating point.  The colour arithmetic runs on Python floats, IEEE-754  *)
(* doubles, and truncates them with int(), so it is modelled bit for bit:  *)
(* a float is sign * m * 2^e, m a natural number of at most MantissaBits   *)
(* bits held as a little-endian sequence of limbs in base Limb; every      *)
(* operation computes the exact result and rounds it to MantissaBits bits, *)
(* ties to even.  The values of the colour code stay far inside the        *)
(* exponent range of a double, so overflow and subnormals are not          *)
(* modelled.                                                               *)

LimbBits == 15
Limb == 2 ^ LimbBits
MantissaBits == 53

Min(a, b) == IF a < b THEN a ELSE b
Max(a, b) == IF a < b THEN b ELSE a

Rest(a) == IF a = <<>> THEN <<>> ELSE Tail(a)
Digit(a, i) == IF i <= Len(a) THEN a[i] ELSE 0

RECURSIVE BNorm(_)
BNorm(a) ==
    IF a # <<>> /\ a[Len(a)] = 0 THEN BNorm(SubSeq(a, 1, Len(a) - 1)) ELSE a

RECURSIVE BFromInt(_)
BFromInt(n) == IF n = 0 THEN <<>> ELSE <<n % Limb>> \o BFromInt(n \div Limb)

RECURSIVE BToInt(_)
BToInt(a) == IF a = <<>> THEN 0 ELSE Head(a) + Limb * BToInt(Tail(a))

\* a + b + c
RECURSIVE BAdd(_, _, _)
BAdd(a, b, c) ==
    IF a = <<>> /\ b = <<>>
    THEN BFromInt(c)
    ELSE LET s == Digit(a, 1) + Digit(b, 1) + c
         IN  <<s % Limb>> \o BAdd(Rest(a), Rest(b), s \div Limb)

\* a - b - c, for a >= b + c
RECURSIVE BSub(_, _, _)
BSub(a, b, c) ==
    IF a = <<>>
    THEN <<>>
    ELSE LET d == a[1] - Digit(b, 1) - c
         IN  <<IF d < 0 THEN d + Limb ELSE d>>
                \o BSub(Tail(a), Rest(b), IF d < 0 THEN 1 ELSE 0)

BLess(a, b) ==
    \E i \in 1..Max(Len(a), Len(b)) :
       /\ Digit(a, i) < Digit(b, i)
       /\ \A j \in (i + 1)..Max(Len(a), Len(b)) : Digit(a, j) = Digit(b, j)

\* a * k + c, for k <= Limb
RECURSIVE BMulSmall(_, _, _)
BMulSmall(a, k, c) ==
    IF a = <<>>
    THEN BFromInt(c)
    ELSE LET p == a[1] * k + c
         IN  <<p % Limb>> \o BMulSmall(Tail(a), k, p \div Limb)

RECURSIVE BMul(_, _)
BMul(a, b) ==
    IF b = <<>>
    THEN <<>>
    ELSE BAdd(BMulSmall(a, b[1], 0), <<0>> \o BMul(a, Tail(b)), 0)

\* quotient and remainder of (r * Limb^Len(a) + a) by d, for r < d <= Limb
RECURSIVE BDivSmall(_, _, _)
BDivSmall(a, d, r) ==
    IF a = <<>>
    THEN [q |-> <<>>, r |-> r]
    ELSE LET n == Len(a)
             cur == r * Limb + a[n]
             low == BDivSmall(SubSeq(a, 1, n - 1), d, cur % d)
         IN  [q |-> Append(low.q, cur \div d), r |-> low.r]

\* a * 2^n
BShl(a, n) ==
    BNorm(BMulSmall([i \in 1..(n \div LimbBits) |-> 0] \o a,
                    2 ^ (n % LimbBits), 0))

\* a \div 2^n, and whether a bit was shifted out
BShr(a, n) ==
    LET k == Min(n \div LimbBits, Len(a))
        dv == BDivSmall(SubSeq(a, k + 1, Len(a)), 2 ^ (n % LimbBits), 0)
    IN  [q |-> BNorm(dv.q),
         sticky |-> dv.r # 0 \/ \E i \in 1..k : a[i] # 0]

\* number of bits of a, for a without leading zero limbs
BitLen(a) ==
    IF a = <<>>
    THEN 0
    ELSE LimbBits * (Len(a) - 1)
            + (CHOOSE k \in 1..LimbBits :
                  2 ^ (k - 1) <= a[Len(a)] /\ a[Len(a)] < 2 ^ k)

Float(s, m, e) == [s |-> s, m |-> m, e |-> e]
Zero == Float(1, <<>>, 0)

\* sign * (n + fraction) * 2^e rounded to the nearest float, ties to even;
\* the fraction is below 1, and `sticky' says that it is not zero
Round(s, n, e, sticky) ==
    LET len == BitLen(n) IN
    IF len = 0
    THEN Zero
    ELSE IF len <= MantissaBits
    THEN Float(s, n, e)
    ELSE LET cut == BShr(n, len - MantissaBits - 1)
             guard == cut.q[1] % 2
             kept == BShr(cut.q, 1).q
             up == guard = 1 /\ (cut.sticky \/ sticky \/ kept[1] % 2 = 1)
             m == IF up THEN BAdd(kept, <<1>>, 0) ELSE kept
         IN  IF BitLen(m) > MantissaBits
             THEN Float(s, BShr(m, 1).q, e + len - MantissaBits + 1)
             ELSE Float(s, m, e + len - MantissaBits)

\* float(n) for an int n
FromInt(n) == IF n < 0 THEN Float(-1, BFromInt(-n), 0) ELSE Float(1, BFromInt(n), 0)

Neg(x) == IF x.m = <<>> THEN x ELSE [x EXCEPT !.s = -x.s]

\* x + y
Add(x, y) ==
    LET e == Min(x.e, y.e)
        a == BShl(x.m, x.e - e)
        b == BShl(y.m, y.e - e)
    IN  IF x.s = y.s
        THEN Round(x.s, BNorm(BAdd(a, b, 0)), e, FALSE)
        ELSE IF BLess(a, b)
        THEN Round(y.s, BNorm(BSub(b, a, 0)), e, FALSE)
        ELSE Round(x.s, BNorm(BSub(a, b, 0)), e, FALSE)

\* x - y
Sub(x, y) == Add(x, Neg(y))

\* x * y
Mul(x, y) == Round(x.s * y.s, BNorm(BMul(x.m, y.m)), x.e + y.e, FALSE)

\* x / d for an int d in 1..Limb; n / d of two ints is Div(FromInt(n), d),
\* and so is the decimal literal that n / d writes out
DivBits == 75
Div(x, d) ==
    LET dv == BDivSmall(BShl(x.m, DivBits), d, 0)
    IN  Round(x.s, BNorm(dv.q), x.e - DivBits, dv.r # 0)

\* x < y
Less(x, y) == LET z == Sub(x, y) IN z.m # <<>> /\ z.s = -1

\* int(x): truncation toward zero
Trunc(x) ==
    x.s * BToInt(IF x.e >= 0 THEN BShl(x.m, x.e) ELSE BShr(x.m, -x.e).q)

----------------------------------------------------------------------------
(* Colours: triples of ints *)

\* tuple(int(color1[i] * (1 - blend_factor) + color2[i] * blend_factor)
\*       for i in range(3))
blend_colors(color1, color2, blend_factor) ==
    [i \in 1..3 |->
        Trunc(Add(Mul(FromInt(color1[i]), Sub(FromInt(1), blend_factor)),
                  Mul(FromInt(color2[i]), blend_factor)))]

\* the float that the decimal literal n / d denotes
Dec(n, d) == Div(FromInt(n), d)

\* temp_factor = (temp + 20) / 45, for a float temp
temp_factor_float(temp) == Div(Add(temp, FromInt(20)), 45)

\* (int(100 + 95 * temp_factor), 150, 255)
base_color1(tf) == <<Trunc(Add(FromInt(100), Mul(FromInt(95), tf))), 150, 255>>

\* (255, int(50 + 55 * temp_factor), 120)
base_color2(tf) == <<255, Trunc(Add(FromInt(50), Mul(FromInt(55), tf))), 120>>

\* wfrac = j / (width_steps - 1) - 0.5
wfrac(j) == Sub(Div(FromInt(j), WIDTH_STEPS - 1), Dec(1, 2))

\* blend = (wfrac + 0.5) * 0.7 + 0.3 * (i / points_per_loop)
blend(i, j) ==
    Add(Mul(Add(wfrac(j), Dec(1, 2)), Dec(7, 10)),
        Mul(Dec(3, 10), Div(FromInt(i), POINTS_COUNT)))

\* variant: the boosted channels are not capped
brighten_uncapped(color, mouse_influence) ==
    IF Less(Dec(1, 10), mouse_influence)
    THEN LET brightness_boost == Add(FromInt(1), Mul(mouse_influence, Dec(1, 2)))
         IN  [c \in 1..3 |-> Trunc(Mul(FromInt(color[c]), brightness_boost))]
    ELSE color

\* if mouse_influence > 0.1: brightness_boost = 1.0 + mouse_influence * 0.5;
\* tuple(min(255, int(c * brightness_boost)) for c in base_color)
brighten(color, mouse_influence) ==
    IF Less(Dec(1, 10), mouse_influence)
    THEN LET brightness_boost == Add(FromInt(1), Mul(mouse_influence, Dec(1, 2)))
         IN  [c \in 1..3 |->
                 Min(255, Trunc(Mul(FromInt(color[c]), brightness_boost)))]
    ELSE color

\* if click_influence > 0: white_blend = click_influence * 0.4;
\* blend_colors(base_color, (255, 255, 255), white_blend)
whiten(color, click_influence) ==
    IF Less(Zero, click_influence)
    THEN blend_colors(color, <<255, 255, 255>>, Mul(click_influence, Dec(4, 10)))
    ELSE color

\* the colour draw_dna_helix passes to pygame.draw.circle for the grid
\* cell (i, j)
final_color(temp, i, j, lighting, mouse_influence, click_influence) ==
    LET tf == temp_factor_float(temp)
        base_color ==
            whiten(brighten(blend_colors(base_color1(tf), base_color2(tf),
                                         blend(i, j)),
                            mouse_influence),
                   click_influence)
    IN  [c \in 1..3 |-> Trunc(Mul(FromInt(base_color[c]), lighting))]

----------------------------------------------------------------------------
(* DNAVisualizer *)

Init ==
    /\ pc = "start"
    /\ running = FALSE
    /\ time = 0
    /\ show_help = TRUE
    /\ help_fade_timer = HELP_FADE_FRAMES
    /\ position = <<0, 0>>
    /\ click_effects = <<>>
    /\ is_dragging = FALSE
    /\ drag_start = <<0, 0>>
    /\ rotation_offset = 0
    /\ view_offset_x = 0
    /\ view_offset_y = 0
    /\ BASE_RADIUS = INITIAL_BASE_RADIUS
    /\ events = <<>>
    /\ exc = "none"
    /\ exit_status = -1
    /\ display = [flips |-> 0, t |-> 0, temp |-> 0, temp_factor |-> 0,
                  ripples |-> <<>>]
    /\ log = <<>>
    /\ call = NoCall

\* run() calls initialize(), which sets running
Initialize ==
    /\ pc = "start"
    /\ pc' = "loop"
    /\ running' = TRUE
    /\ UNCHANGED <<time, show_help, help_fade_timer, mouse_vars, BASE_RADIUS,
                   events, exc, exit_status, display, log, call>>

\* `while self.running:' -- the only place the flag is read
LoopTest ==
    /\ pc = "loop"
    /\ pc' = IF running THEN "poll" ELSE "cleanup"
    /\ UNCHANGED <<running, time, show_help, help_fade_timer, mouse_vars,
                   BASE_RADIUS, events, exc, exit_status, display, log, call>>

\* pygame.event.get() returns the batch `b'
Poll(b) ==
    /\ pc = "poll"
    /\ pc' = "events"
    /\ events' = b
    /\ UNCHANGED <<running, time, show_help, help_fade_timer, mouse_vars,
                   BASE_RADIUS, exc, exit_status, display, log, call>>

Dispatching(type) ==
    /\ pc = "events"
    /\ events # <<>>
    /\ Head(events).type = type

\* the event is taken off the list and the loop goes on to the next one
Consume ==
    /\ events' = Tail(events)
    /\ log' = Append(log, [frame |-> Frame, ev |-> Head(events)])
    /\ exc' = exc

\* reading an absent attribute raises AttributeError, which leaves
\* handle_events and the while loop for the finally clause of run()
Raise ==
    /\ pc' = "cleanup"
    /\ exc' = "AttributeError"
    /\ events' = <<>>
    /\ log' = Append(log, [frame |-> Frame, ev |-> Head(events)])
    /\ UNCHANGED <<running, time, show_help, help_fade_timer, mouse_vars,
                   BASE_RADIUS, exit_status, display, call>>

HandleMouseButtonDown ==
    /\ Dispatching("MOUSEBUTTONDOWN")
    /\ LET e == Head(events) IN
       IF "button" \notin e.attrs \/ (e.button \in {1, 3} /\ "pos" \notin e.attrs)
       THEN Raise
       ELSE /\ Consume
            /\ pc' = pc
            /\ IF e.button = 1
               THEN /\ click_effects' = add_click_effect(click_effects, e.pos)
                    /\ is_dragging' = TRUE
                    /\ drag_start' = e.pos
               ELSE IF e.button = 3
               THEN /\ click_effects' = add_click_effect(click_effects, e.pos)
                    /\ UNCHANGED <<is_dragging, drag_start>>
               ELSE UNCHANGED <<click_effects, is_dragging, drag_start>>
            /\ UNCHANGED <<running, time, show_help, help_fade_timer, position,
                           rotation_offset, view_offset_x, view_offset_y,
                           BASE_RADIUS, exit_status, display, call>>

\* variant: the anchor stays where the button was pressed
update_drag_from_press(pos) ==
    IF is_dragging
    THEN /\ rotation_offset' =
               rotation_offset + (pos[1] - drag_start[1]) * DRAG_SENSITIVITY
         /\ view_offset_y' = view_offset_y + (pos[2] - drag_start[2])
         /\ drag_start' = drag_start
    ELSE UNCHANGED <<rotation_offset, view_offset_y, drag_start>>

\* update_drag(pos): the move is measured from drag_start, which then
\* becomes pos
update_drag(pos) ==
    IF is_dragging
    THEN /\ rotation_offset' =
               rotation_offset + (pos[1] - drag_start[1]) * DRAG_SENSITIVITY
         /\ view_offset_y' = view_offset_y + (pos[2] - drag_start[2])
         /\ drag_start' = pos
    ELSE UNCHANGED <<rotation_offset, view_offset_y, drag_start>>

\* variant: the drag pans horizontally as well
HandleMouseMotion_panning ==
    /\ Dispatching("MOUSEMOTION")
    /\ LET e == Head(events) IN
       IF "pos" \notin e.attrs
       THEN Raise
       ELSE /\ Consume
            /\ pc' = pc
            /\ position' = e.pos
            /\ view_offset_x' = IF is_dragging
                                THEN view_offset_x + (e.pos[1] - drag_start[1])
                                ELSE view_offset_x
            /\ IF is_dragging
               THEN update_drag(e.pos)
               ELSE UNCHANGED <<rotation_offset, view_offset_y, drag_start>>
            /\ UNCHANGED <<running, time, show_help, help_fade_timer,
                           click_effects, is_dragging, BASE_RADIUS,
                           exit_status, display, call>>

HandleMouseMotion ==
    /\ Dispatching("MOUSEMOTION")
    /\ LET e == Head(events) IN
       IF "pos" \notin e.attrs
       THEN Raise
       ELSE /\ Consume
            /\ pc' = pc
            /\ position' = e.pos
            /\ IF is_dragging
               THEN update_drag(e.pos)
               ELSE UNCHANGED <<rotation_offset, view_offset_y, drag_start>>
            /\ UNCHANGED <<running, time, show_help, help_fade_timer,
                           click_effects, is_dragging, view_offset_x,
                           BASE_RADIUS, exit_status, display, call>>

\* variant: the release of any button ends the drag
HandleMouseButtonUp_any_button ==
    /\ Dispatching("MOUSEBUTTONUP")
    /\ LET e == Head(events) IN
       IF "button" \notin e.attrs
       THEN Raise
       ELSE /\ Consume
            /\ pc' = pc
            /\ is_dragging' = FALSE
            /\ UNCHANGED <<running, time, show_help, help_fade_timer, position,
                           click_effects, drag_start, rotation_offset,
                           view_offset_x, view_offset_y, BASE_RADIUS,
                           exit_status, display, call>>

HandleMouseButtonUp ==
    /\ Dispatching("MOUSEBUTTONUP")
    /\ LET e == Head(events) IN
       IF "button" \notin e.attrs
       THEN Raise
       ELSE /\ Consume
            /\ pc' = pc
            /\ is_dragging' = IF e.button = 1 THEN FALSE ELSE is_dragging
            /\ UNCHANGED <<running, time, show_help, help_fade_timer, position,
                           click_effects, drag_start, rotation_offset,
                           view_offset_x, view_offset_y, BASE_RADIUS,
                           exit_status, display, call>>

Clamp(lo, hi, v) == IF v < lo THEN lo ELSE IF v > hi THEN hi ELSE v

\* int(radius * 1.1) and int(radius * 0.9): for every radius in 100..500 the
\* float product truncates to the floor of the exact product
Scaled(radius, y) == (radius * (IF y > 0 THEN 11 ELSE 9)) \div 10

\* variant: the result is not clamped
Zoom_unclamped(radius, y) == Scaled(radius, y)

\* max(100, min(500, int(BASE_RADIUS * zoom_factor)))
Zoom(radius, y) == Clamp(MIN_BASE_RADIUS, MAX_BASE_RADIUS, Scaled(radius, y))

HandleMouseWheel ==
    /\ Dispatching("MOUSEWHEEL")
    /\ LET e == Head(events) IN
       IF "y" \notin e.attrs
       THEN Raise
       ELSE /\ Consume
            /\ pc' = pc
            /\ BASE_RADIUS' = Zoom(BASE_RADIUS, e.y)
            /\ UNCHANGED <<running, time, show_help, help_fade_timer,
                           mouse_vars, exit_status, display, call>>

\* variant: the quit event leaves the loop at once
HandleQuit_break ==
    /\ Dispatching("QUIT")
    /\ Consume
    /\ pc' = "cleanup"
    /\ running' = FALSE
    /\ UNCHANGED <<time, show_help, help_fade_timer, mouse_vars, BASE_RADIUS,
                   exit_status, display, call>>

HandleQuit ==
    /\ Dispatching("QUIT")
    /\ Consume
    /\ pc' = pc
    /\ running' = FALSE
    /\ UNCHANGED <<time, show_help, help_fade_timer, mouse_vars, BASE_RADIUS,
                   exit_status, display, call>>

HandleKeyDown ==
    /\ Dispatching("KEYDOWN")
    /\ LET e == Head(events) IN
       IF "key" \notin e.attrs
       THEN Raise
       ELSE /\ Consume
            /\ pc' = pc
            /\ running' = IF e.key = "K_ESCAPE" THEN FALSE ELSE running
            /\ show_help' = IF e.key \in {"K_h", "K_F1"}
                            THEN ~show_help ELSE show_help
            /\ IF e.key = "K_r"
               THEN /\ rotation_offset' = 0
                    /\ view_offset_x' = 0
                    /\ view_offset_y' = 0
               ELSE UNCHANGED <<rotation_offset, view_offset_x, view_offset_y>>
            /\ UNCHANGED <<time, help_fade_timer, position, click_effects,
                           is_dragging, drag_start, BASE_RADIUS, exit_status,
                           display, call>>

\* the for loop over the polled events is exhausted
EndEvents ==
    /\ pc = "events"
    /\ events = <<>>
    /\ pc' = "update"
    /\ UNCHANGED <<running, time, show_help, help_fade_timer, mouse_vars,
                   BASE_RADIUS, events, exc, exit_status, display, log, call>>

Update ==
    /\ pc = "update"
    /\ pc' = "render"
    /\ time' = time + TIME_STEP
    /\ click_effects' = update_effects(click_effects)
    /\ IF help_fade_timer > 0
       THEN /\ help_fade_timer' = help_fade_timer - 1
            /\ show_help' = IF help_fade_timer' = 0 THEN FALSE ELSE show_help
       ELSE UNCHANGED <<help_fade_timer, show_help>>
    /\ UNCHANGED <<running, position, is_dragging, drag_start, rotation_offset,
                   view_offset_x, view_offset_y, BASE_RADIUS, events, exc,
                   exit_status, display, log, call>>

\* variant: draws before the state was advanced for this frame
Render_before_update ==
    /\ pc = "render"
    /\ pc' = "loop"
    /\ display' = Drawn(display.flips + 1, time - TIME_STEP,
                        [i \in DOMAIN click_effects |->
                            [click_effects[i] EXCEPT !.time = @ - 1]])
    /\ UNCHANGED <<running, time, show_help, help_fade_timer, mouse_vars,
                   BASE_RADIUS, events, exc, exit_status, log, call>>

\* render() draws with the current time and ripples and flips the display;
\* clock.tick(FPS) then only waits
Render ==
    /\ pc = "render"
    /\ pc' = "loop"
    /\ display' = Drawn(display.flips + 1, time, click_effects)
    /\ UNCHANGED <<running, time, show_help, help_fade_timer, mouse_vars,
                   BASE_RADIUS, events, exc, exit_status, log, call>>

\* finally: cleanup() -- pygame.quit(); sys.exit().  SystemExit with no code
\* replaces whatever exception was propagating and ends the process with
\* status 0.  exc keeps the exception that left the loop.
Cleanup ==
    /\ pc = "cleanup"
    /\ pc' = "exited"
    /\ exit_status' = 0
    /\ UNCHANGED <<running, time, show_help, help_fade_timer, mouse_vars,
                   BASE_RADIUS, events, exc, display, log, call>>

----------------------------------------------------------------------------
(* Ripple environment: the window delivers only button presses, in the     *)
(* first ClickWindow frames of every CLICK_EFFECT_DURATION frames.         *)

ClickEvents == {DownEv(1, <<100, 200>>), DownEv(3, <<110, 204>>)}

PollClicks ==
    /\ Frame < MaxRippleFrames
    /\ \E b \in SeqsUpTo(ClickEvents, MaxBatch) :
          /\ Len(log) + Len(b) <= MaxClicks
          /\ (b # <<>> => Frame % CLICK_EFFECT_DURATION < ClickWindow)
          /\ Poll(b)

NextRipple ==
    \/ Initialize
    \/ LoopTest
    \/ PollClicks
    \/ HandleMouseButtonDown
    \/ EndEvents
    \/ Update
    \/ Render

SpecRipple == Init /\ [][NextRipple]_vars

----------------------------------------------------------------------------
(* Pointer environment: moves, presses of the three buttons, releases of  *)
(* the left and the right button, the R key and the wheel.                 *)

MouseEvents ==
    {MotionEv(p) : p \in Positions}
    \cup {DownEv(1, <<100, 200>>), DownEv(2, <<100, 200>>),
          DownEv(3, <<110, 204>>)}
    \cup {UpEv(b, <<100, 200>>) : b \in {1, 3}}
    \cup {KeyEv("K_r"), WheelEv(1)}

PollMouse ==
    /\ Frame < MaxMouseFrames
    /\ \E b \in SeqsUpTo(MouseEvents, MaxBatch) :
          /\ Len(log) + Len(b) <= MaxMouseEvents
          /\ Poll(b)

NextMouse ==
    \/ Initialize
    \/ LoopTest
    \/ PollMouse
    \/ HandleMouseMotion
    \/ HandleMouseButtonDown
    \/ HandleMouseButtonUp
    \/ HandleKeyDown
    \/ HandleMouseWheel
    \/ EndEvents
    \/ Update
    \/ Render

SpecMouse == Init /\ [][NextMouse]_vars

----------------------------------------------------------------------------
(* Wheel environment: wheel events only; y = 0 is a horizontal scroll.     *)

WheelEvents == {WheelEv(y) : y \in {-1, 0, 1}}

PollWheel ==
    /\ Frame < MaxZoomFrames
    /\ \E b \in SeqsUpTo(WheelEvents, MaxBatch) :
          /\ Len(log) + Len(b) <= MaxWheelEvents
          /\ Poll(b)

NextZoom ==
    \/ Initialize
    \/ LoopTest
    \/ PollWheel
    \/ HandleMouseWheel
    \/ EndEvents
    \/ Update
    \/ Render

SpecZoom == Init /\ [][NextZoom]_vars

----------------------------------------------------------------------------
(* Shutdown environment: window close, Escape, and events that do not quit *)

QuitEvents ==
    {QuitEv, KeyEv("K_ESCAPE"), KeyEv("K_h"), DownEv(3, <<100, 200>>)}

PollQuit ==
    /\ Frame < MaxQuitFrames
    /\ \E b \in SeqsUpTo(QuitEvents, MaxBatch) :
          /\ Len(log) + Len(b) <= MaxQuitEvents
          /\ Poll(b)

NextQuit ==
    \/ Initialize
    \/ LoopTest
    \/ PollQuit
    \/ HandleQuit
    \/ HandleKeyDown
    \/ HandleMouseButtonDown
    \/ EndEvents
    \/ Update
    \/ Render
    \/ Cleanup

SpecQuit == Init /\ [][NextQuit]_vars

----------------------------------------------------------------------------
(* Faulty environment: events that lack an attribute their handler reads,  *)
(* among well-formed ones.                                                 *)

\* the event lacks an attribute that its handler reads
Malformed(e) ==
    \/ e.type = "MOUSEMOTION" /\ "pos" \notin e.attrs
    \/ e.type = "MOUSEBUTTONDOWN" /\ "button" \notin e.attrs
    \/ e.type = "MOUSEBUTTONDOWN" /\ e.button \in {1, 3} /\ "pos" \notin e.attrs
    \/ e.type = "MOUSEBUTTONUP" /\ "button" \notin e.attrs
    \/ e.type = "KEYDOWN" /\ "key" \notin e.attrs
    \/ e.type = "MOUSEWHEEL" /\ "y" \notin e.attrs

FaultyEvents ==
    {Ev("MOUSEMOTION", {}, NoPos, 0, "", 0),
     Ev("MOUSEBUTTONDOWN", {"button"}, NoPos, 1, "", 0),
     Ev("KEYDOWN", {}, NoPos, 0, "", 0),
     MotionEv(<<110, 204>>),
     DownEv(1, <<100, 200>>),
     KeyEv("K_r")}

PollFaulty ==
    /\ Frame < MaxFaultFrames
    /\ \E b \in SeqsUpTo(FaultyEvents, MaxBatch) :
          /\ Len(log) + Len(b) <= MaxFaultEvents
          /\ Poll(b)

NextFault ==
    \/ Initialize
    \/ LoopTest
    \/ PollFaulty
    \/ HandleMouseMotion
    \/ HandleMouseButtonDown
    \/ HandleKeyDown
    \/ EndEvents
    \/ Update
    \/ Render
    \/ Cleanup

SpecFault == Init /\ [][NextFault]_vars

----------------------------------------------------------------------------
(* Temperature environment: no events; the run is observed TempRun frames  *)
(* at a time, from clock values spread over a simulated year.              *)

\* the state of a run that has rendered k frames and received no event
InitTemp ==
    \E i \in 0..(TempSamples - 1) :
       LET k == TempStride * i IN
       /\ pc = "loop"
       /\ running = TRUE
       /\ time = TIME_STEP * k
       /\ help_fade_timer = IF k < HELP_FADE_FRAMES THEN HELP_FADE_FRAMES - k ELSE 0
       /\ show_help = (k < HELP_FADE_FRAMES)
       /\ position = <<0, 0>>
       /\ click_effects = <<>>
       /\ is_dragging = FALSE
       /\ drag_start = <<0, 0>>
       /\ rotation_offset = 0
       /\ view_offset_x = 0
       /\ view_offset_y = 0
       /\ BASE_RADIUS = INITIAL_BASE_RADIUS
       /\ events = <<>>
       /\ exc = "none"
       /\ exit_status = -1
       /\ display = IF k = 0
                    THEN [flips |-> 0, t |-> 0, temp |-> 0, temp_factor |-> 0,
                          ripples |-> <<>>]
                    ELSE Drawn(k, TIME_STEP * k, <<>>)
       /\ log = <<>>
       /\ call = NoCall

PollNothing ==
    /\ Frame % TempStride < TempRun
    /\ Poll(<<>>)

NextTemp ==
    \/ LoopTest
    \/ PollNothing
    \/ EndEvents
    \/ Update
    \/ Render

SpecTemp == InitTemp /\ [][NextTemp]_vars

----------------------------------------------------------------------------
(* Blending on its own: blend_colors applied to two colours and a factor   *)
(* k / FactorSteps.                                                        *)

Colours == {<<0, 0, 0>>, <<3, 37, 255>>, <<100, 150, 255>>, <<255, 50, 120>>,
            <<201, 108, 9>>, <<255, 255, 255>>}

BlendCalls ==
    {[fn |-> "blend_colors", color1 |-> a, color2 |-> b, num |-> k,
      den |-> FactorSteps, ret |-> <<>>] :
        a \in Colours, b \in Colours, k \in 0..FactorSteps}

\* the first frame is about to be rendered
Rendering ==
    /\ pc = "render"
    /\ running = TRUE
    /\ time = TIME_STEP
    /\ show_help = TRUE
    /\ help_fade_timer = HELP_FADE_FRAMES - 1
    /\ position = <<0, 0>>
    /\ click_effects = <<>>
    /\ is_dragging = FALSE
    /\ drag_start = <<0, 0>>
    /\ rotation_offset = 0
    /\ view_offset_x = 0
    /\ view_offset_y = 0
    /\ BASE_RADIUS = INITIAL_BASE_RADIUS
    /\ events = <<>>
    /\ exc = "none"
    /\ exit_status = -1
    /\ display = [flips |-> 0, t |-> 0, temp |-> 0, temp_factor |-> 0,
                  ripples |-> <<>>]
    /\ log = <<>>

InitBlend ==
    /\ Rendering
    /\ call \in BlendCalls

\* blend_colors returns
Blend ==
    /\ call.fn = "blend_colors"
    /\ call.ret = <<>>
    /\ call' = [call EXCEPT !.ret =
                   blend_colors(call.color1, call.color2,
                                Div(FromInt(call.num), call.den))]
    /\ UNCHANGED <<pc, running, time, show_help, help_fade_timer, mouse_vars,
                   BASE_RADIUS, events, exc, exit_status, display, log>>

NextBlend == Blend

SpecBlend == InitBlend /\ [][NextBlend]_vars

----------------------------------------------------------------------------
(* Point colour on its own: the colour of one grid cell for a temperature  *)
(* in thousandths, a lighting k / FactorSteps in [0.6, 1] and pointer and  *)
(* ripple influences k / LevelSteps.                                       *)

Temps == {-23000, -20000, 2500, 25000, 28000}
Cells == {0, 450, POINTS_COUNT - 1} \X {0, 10, WIDTH_STEPS - 1}
Lightings == {k \in 0..FactorSteps : 6 * FactorSteps <= 10 * k}

PointCalls ==
    {[fn |-> "final_color", temp |-> t, i |-> c[1], j |-> c[2],
      lighting |-> l, mouse_influence |-> m, click_influence |-> r,
      ret |-> <<>>] :
        t \in Temps, c \in Cells, l \in Lightings,
        m \in 0..LevelSteps, r \in 0..LevelSteps}

InitPoint ==
    /\ Rendering
    /\ call \in PointCalls

\* the colour of the point is computed and handed to pygame.draw.circle
DrawPoint ==
    /\ call.fn = "final_color"
    /\ call.ret = <<>>
    /\ call' = [call EXCEPT !.ret =
                   final_color(Dec(call.temp, 1000), call.i, call.j,
                               Dec(call.lighting, FactorSteps),
                               Dec(call.mouse_influence, LevelSteps),
                               Dec(call.click_influence, LevelSteps))]
    /\ UNCHANGED <<pc, running, time, show_help, help_fade_timer, mouse_vars,
                   BASE_RADIUS, events, exc, exit_status, display, log>>

NextPoint == DrawPoint

SpecPoint == InitPoint /\ [][NextPoint]_vars

----------------------------------------------------------------------------
(* Ripple lifetime *)

IsClick(entry) ==
    /\ entry.ev.type = "MOUSEBUTTONDOWN"
    /\ entry.ev.button \in {1, 3}

\* index of the frame the display shows
Shown == display.flips - 1

\* the clicks handled in frames f-59 .. f, oldest first
ClicksWithin60(f) ==
    SelectSeq(log, LAMBDA c : IsClick(c) /\ c.frame <= f /\ f <= c.frame + 59)

\* C1: a ripple inserted by a click handled in frame N is in the collection
\* rendered in each of the frames N .. N+59 and in none from N+60 on: the
\* collection a frame renders holds exactly the clicks of that frame and of
\* the 59 frames before it, each entry at the position of its click.
C1_RippleLifetime ==
    display.flips > 0 =>
        LET live == ClicksWithin60(Shown)
        IN  /\ Len(display.ripples) = Len(live)
            /\ \A i \in DOMAIN live :
                   /\ display.ripples[i].pos = live[i].ev.pos
                   /\ display.ripples[i].time = Shown - live[i].frame + 1

\* frame 60 is on display: the click of frame 0 is gone, the click of
\* frame 1 is in its 60th and last frame
C1_Witness ==
    /\ Len(log) >= 2
    /\ IsClick(log[1]) /\ log[1].frame = 0
    /\ IsClick(log[2]) /\ log[2].frame = 1
    /\ Shown = 60
    /\ Len(display.ripples) = 1
    /\ display.ripples[1].time = 60

\* C2 as claimed: every retained ripple has an age below the duration (60).
C2_AgeBelowDuration ==
    \A i \in DOMAIN click_effects : click_effects[i].time < 60

\* C2 amended: every retained ripple has an age of at most the duration
\* (60); a ripple of age 60 stays in the collection for one frame.
C2_AgeAtMostDuration ==
    \A i \in DOMAIN click_effects : click_effects[i].time <= 60

C2_Witness ==
    /\ pc = "render"
    /\ click_effects # <<>>
    /\ click_effects[1].time = 60

\* C7 as claimed: frame k (k = 0, 1, ...) is drawn with t = k * 0.06 and
\* with the ripple ages not yet advanced for that frame.
C7_DrawBeforeAdvance ==
    display.flips > 0 =>
        /\ display.t = TIME_STEP * Shown
        /\ LET live == ClicksWithin60(Shown)
           IN  \A i \in DOMAIN display.ripples :
                  i \in DOMAIN live =>
                     display.ripples[i].time = Shown - live[i].frame

\* C7 amended: in every frame the state is advanced before it is drawn:
\* when frame k is rendered t has been advanced k+1 times, frame k is drawn
\* with t = (k+1) * 0.06, and a ripple is drawn with its age already
\* advanced for that frame (a click of frame k is drawn with age 1).
C7_AdvanceBeforeDraw ==
    /\ pc = "render" => time = TIME_STEP * (display.flips + 1)
    /\ display.flips > 0 =>
          /\ display.t = TIME_STEP * (Shown + 1)
          /\ LET live == ClicksWithin60(Shown)
             IN  \A i \in DOMAIN display.ripples :
                    i \in DOMAIN live =>
                       display.ripples[i].time = Shown - live[i].frame + 1

\* frame 1 on display, drawn with t = 0.12, showing a click of frame 1
C7_Witness ==
    /\ pc = "loop"
    /\ display.flips = 2
    /\ display.t = 12
    /\ Len(display.ripples) = 1
    /\ display.ripples[1].time = 1

----------------------------------------------------------------------------
(* Scroll zoom *)

WheelLog == [i \in DOMAIN log |-> log[i].ev.y]

\* C3: after any sequence of wheel events the base radius lies in
\* [100, 500]; one scroll-up from 320 gives 352 and one scroll-down 288;
\* five consecutive scroll-ups from 320 leave it at exactly 500.
C3_ScrollZoom ==
    /\ BASE_RADIUS \in 100..500
    /\ WheelLog = <<1>> => BASE_RADIUS = 352
    /\ WheelLog = <<-1>> => BASE_RADIUS = 288
    /\ WheelLog = <<1, 1, 1, 1, 1>> => BASE_RADIUS = 500

C3_Witness ==
    /\ WheelLog = <<1, 1, 1, 1, 1>>
    /\ BASE_RADIUS = 500

----------------------------------------------------------------------------
(* Drag state machine *)

IsPrimary(entry) ==
    /\ entry.ev.type \in {"MOUSEBUTTONDOWN", "MOUSEBUTTONUP"}
    /\ entry.ev.button = 1

PrimaryLog == SelectSeq(log, IsPrimary)

LastPrimaryIsPress ==
    /\ PrimaryLog # <<>>
    /\ PrimaryLog[Len(PrimaryLog)].ev.type = "MOUSEBUTTONDOWN"

\* C4: is_dragging is true exactly when the last primary-button event was a
\* press (Idle initially), and right after a primary-button press the drag
\* anchor is the position of that press.
C4_DragStateMachine ==
    /\ is_dragging <=> LastPrimaryIsPress
    /\ (/\ log # <<>>
        /\ log[Len(log)].ev.type = "MOUSEBUTTONDOWN"
        /\ log[Len(log)].ev.button = 1)
       => drag_start = log[Len(log)].ev.pos

\* pressed, then a right-button release and a key: still Dragging
C4_Witness ==
    /\ Len(log) = 3
    /\ log[1].ev = DownEv(1, <<100, 200>>)
    /\ log[2].ev = UpEv(3, <<100, 200>>)
    /\ log[3].ev = KeyEv("K_r")
    /\ is_dragging
    /\ drag_start = <<100, 200>>

\* the log is one primary-button press followed by pointer moves only
OneDragOnly ==
    /\ log # <<>>
    /\ log[1].ev.type = "MOUSEBUTTONDOWN" /\ log[1].ev.button = 1
    /\ \A i \in 2..Len(log) : log[i].ev.type = "MOUSEMOTION"

\* C5: while Dragging a move to p adds (p.x - anchor.x) * 0.003 to the
\* rotation offset and (p.y - anchor.y) * 0.5 to the vertical view offset
\* and makes p the anchor; while Idle a move changes the pointer position
\* only.  Moves therefore telescope: after a press at a and any moves the
\* offsets are those of the displacement from a to the latest position.
C5_DragDelta ==
    /\ [][Dispatching("MOUSEMOTION") =>
            LET p == Head(events).pos IN
            /\ position' = p
            /\ IF is_dragging
               THEN /\ rotation_offset' =
                          rotation_offset + (p[1] - drag_start[1]) * 3
                    /\ view_offset_y' = view_offset_y + (p[2] - drag_start[2])
                    /\ drag_start' = p
               ELSE UNCHANGED <<rotation_offset, view_offset_y, drag_start,
                                view_offset_x, is_dragging, click_effects>>]_vars
    /\ [](OneDragOnly =>
            /\ rotation_offset = (drag_start[1] - log[1].ev.pos[1]) * 3
            /\ view_offset_y = drag_start[2] - log[1].ev.pos[2])

\* pressed at (100, 200), moved to (110, 204) and back
C5_Witness ==
    /\ Len(log) = 3
    /\ log[1].ev = DownEv(1, <<100, 200>>)
    /\ log[2].ev = MotionEv(<<110, 204>>)
    /\ log[3].ev = MotionEv(<<100, 200>>)
    /\ rotation_offset = 0
    /\ view_offset_y = 0
    /\ drag_start = <<100, 200>>

----------------------------------------------------------------------------
(* Clicks *)

ClickLog == SelectSeq(log, IsClick)

\* C6: a press of button 1 or 3 appends exactly one ripple of age 0 at the
\* click position, whatever the drag state and the collection; after a
\* single click and the update of its frame the collection holds exactly
\* one ripple, of age 1 and progress 1/60.
C6_ClickAppends ==
    /\ [][(Dispatching("MOUSEBUTTONDOWN") /\ Head(events).button \in {1, 3}) =>
            /\ Len(click_effects') = Len(click_effects) + 1
            /\ SubSeq(click_effects', 1, Len(click_effects)) = click_effects
            /\ click_effects'[Len(click_effects')].pos = Head(events).pos
            /\ click_effects'[Len(click_effects')].time = 0]_vars
    /\ []((/\ pc = "render"
           /\ Len(ClickLog) = 1
           /\ ClickLog[1].frame = Frame - 1) =>
            /\ Len(click_effects) = 1
            /\ click_effects[1].time = 1
            /\ click_effects[1].time * 60 = CLICK_EFFECT_DURATION)

\* a right click while Dragging, on a collection that holds a ripple
C6_Witness ==
    /\ Len(log) = 2
    /\ log[1].ev = DownEv(1, <<100, 200>>)
    /\ log[2].ev = DownEv(3, <<110, 204>>)
    /\ is_dragging
    /\ Len(click_effects) = 2
    /\ click_effects[2] = RippleEffect(<<110, 204>>)

----------------------------------------------------------------------------
(* Shutdown *)

IsQuit(entry) ==
    \/ entry.ev.type = "QUIT"
    \/ entry.ev.type = "KEYDOWN" /\ entry.ev.key = "K_ESCAPE"

QuitLog == SelectSeq(log, IsQuit)

\* C8: once a window-close or Escape event is handled the running flag is
\* false for good; the loop is left only after such an event, with the
\* update and the render of the frame that polled it done and no later
\* frame begun; the process ends with exit status 0.
C8_Shutdown ==
    /\ QuitLog # <<>> => ~running
    /\ QuitLog # <<>> => \A i \in DOMAIN log : log[i].frame <= QuitLog[1].frame
    /\ pc \in {"cleanup", "exited"} =>
          /\ QuitLog # <<>>
          /\ time = TIME_STEP * (QuitLog[1].frame + 1)
          /\ display.flips = QuitLog[1].frame + 1
          /\ display.t = time
    /\ pc = "exited" => exit_status = 0

\* Escape polled in frame 1: two frames were rendered before the exit
C8_Witness ==
    /\ pc = "exited"
    /\ exit_status = 0
    /\ QuitLog # <<>>
    /\ QuitLog[1].ev = KeyEv("K_ESCAPE")
    /\ QuitLog[1].frame = 1
    /\ display.flips = 2

----------------------------------------------------------------------------
(* Malformed events *)

\* C9 as claimed: an event that lacks an attribute its handler reads is
\* skipped: the loop goes on to the remaining events of the poll, and the
\* clock, the pointer state and the ripple collection are unchanged.
C9_MalformedSkipped ==
    [][(pc = "events" /\ events # <<>> /\ Malformed(Head(events))) =>
          /\ pc' = "events"
          /\ events' = Tail(events)
          /\ UNCHANGED <<running, time, mouse_vars>>]_vars

----------------------------------------------------------------------------
(* Temperature factor *)

\* C10 as claimed: the temperature factor every rendered frame is drawn
\* with lies in [0, 1].
C10_TempFactorInUnitRange ==
    display.flips > 0 =>
        /\ display.temp_factor >= 0
        /\ display.temp_factor <= 1000
----------------------------------------------------------------------------
(* Blending *)

\* C11: blending a colour with itself returns it whatever the factor, the
\* factor 0 returns the first colour and the factor 1 the second
C11_BlendIdentities ==
    (call.fn = "blend_colors" /\ call.ret # <<>>) =>
        /\ call.color1 = call.color2 => call.ret = call.color1
        /\ call.num = 0 => call.ret = call.color1
        /\ call.num = call.den => call.ret = call.color2

----------------------------------------------------------------------------
(* Ripple queue *)

\* the ripples in collection order are the latest clicks in the order of
\* their dispatch
LatestClicks ==
    SubSeq(ClickLog, Len(ClickLog) - Len(click_effects) + 1, Len(ClickLog))

\* C12: the ripple collection is a queue in insertion order: the ripples
\* are the latest clicks in the order they were made, no ripple is younger
\* than one behind it, and a frame update removes a prefix of the
\* collection and keeps the rest, aged by one, in the same order; every
\* ripple it removes is at least as old as every ripple it keeps
C12_InsertionOrderedQueue ==
    /\ [](/\ Len(click_effects) <= Len(ClickLog)
          /\ \A i \in DOMAIN click_effects :
                click_effects[i].pos = LatestClicks[i].ev.pos
          /\ \A i, j \in DOMAIN click_effects :
                i < j => click_effects[i].time >= click_effects[j].time)
    /\ [][pc = "update" =>
            \E k \in 0..Len(click_effects) :
               /\ click_effects' =
                     [i \in 1..(Len(click_effects) - k) |->
                         [click_effects[k + i] EXCEPT !.time = @ + 1]]
               /\ \A i \in 1..k : \A j \in (k + 1)..Len(click_effects) :
                     click_effects[i].time >= click_effects[j].time]_vars

\* the update of frame 60 has removed the click of frame 0 and kept the
\* clicks of frames 1 and 2, the older one first
C12_Witness ==
    /\ pc = "render"
    /\ Len(ClickLog) = 3
    /\ Len(click_effects) = 2
    /\ click_effects[1].time = CLICK_EFFECT_DURATION
    /\ click_effects[1].time > click_effects[2].time

----------------------------------------------------------------------------
(* Horizontal view offset *)

\* C13: view_offset_x is 0 in every reachable state: no event and no frame
\* update gives it another value
C13_NoHorizontalPan == view_offset_x = 0

\* a drag of 10 pixels to the right and 4 down has rotated the strip and
\* shifted it vertically
C13_Witness ==
    /\ Len(log) = 2
    /\ log[1].ev = DownEv(1, <<100, 200>>)
    /\ log[2].ev = MotionEv(<<110, 204>>)
    /\ rotation_offset = 10 * DRAG_SENSITIVITY
    /\ view_offset_y = 4
    /\ view_offset_x = 0

----------------------------------------------------------------------------
(* Point colours *)

\* C14: every channel of the colour handed to the draw call is an integer
\* from 0 to 255, for temperatures from -23 to 28 degrees, every grid cell,
\* lighting from 0.6 to 1 and pointer and ripple influences from 0 to 1
C14_ColourValid ==
    (call.fn = "final_color" /\ call.ret # <<>>) =>
        \A c \in 1..3 : call.ret[c] \in 0..255

\* 28 degrees (temperature factor above 1), full pointer and ripple
\* influence and full lighting: boosted, whitened, and drawn pure white
C14_Witness ==
    /\ call.fn = "final_color"
    /\ call.temp = 28000
    /\ call.lighting = FactorSteps
    /\ call.mouse_influence = LevelSteps
    /\ call.click_influence = LevelSteps
    /\ call.ret # <<>>
    /\ call.ret[1] = 255

====
